---- MODULE Spec2Model ----
(***************************************************************************)
(* DeltaJen: incremental OTA generation from two zips.                     *)
(*                                                                         *)
(* Strings are modelled as sequences of tokens (path components, "/" and   *)
(* extensions), so that concatenation is \o, startswith is a prefix test   *)
(* and splitext reads the last token.  File contents are sequences of      *)
(* bytes; sizes are their lengths and sha1 digests are an injective        *)
(* numeric encoding of the bytes.                                          *)
(***************************************************************************)
EXTENDS Integers, Sequences, FiniteSets, TLC

VARIABLES
    base_zip_file,   \* what is on disk at the base_zip location
    input_zip_file,  \* what is on disk at the input_zip location
    policy,          \* the return values of the Hooks methods of this run
    gapps_files,     \* DeltaJen.gapps_files
    bs_diff,         \* whether the bsdiff4 module could be imported
    pc,              \* position of cli(): __init__, then the steps of generate
    exc,             \* exception that ended the run ("none" while running)
    opened,          \* archives opened so far by __init__
    base_ptr,        \* DeltaJen.base_ptr
    input_ptr,       \* DeltaJen.input_ptr
    to_diff,         \* result of find_diffs
    counter,         \* create_patches: index of the next file of to_diff
    output_zip,      \* entries written to the output archive, in order
    output_closed,   \* output_zip.close() has run
    script,          \* the edify commands assembled by generate
    warnings,        \* files for which compute_diff printed its WARNING
    d_pc,            \* position inside one compute_diff call
    d_in,            \* inputs of that call: file name, bs_diff, installed tools
    d_cmd,           \* the command list cmd of that call
    d_tmp,           \* temporary files made by mkstemp in that call
    d_out            \* what the call returned or raised

vars == <<base_zip_file, input_zip_file, policy, gapps_files, bs_diff, pc, exc, opened,
          base_ptr, input_ptr, to_diff, counter, output_zip, output_closed,
          script, warnings, d_pc, d_in, d_cmd, d_tmp, d_out>>

genVars == <<base_zip_file, input_zip_file, policy, gapps_files, bs_diff, pc, exc, opened,
             base_ptr, input_ptr, to_diff, counter, output_zip, output_closed,
             script, warnings>>

diffVars == <<d_pc, d_in, d_cmd, d_tmp, d_out>>

----------------------------------------------------------------------------
(* Bounds of the model *)

\* longest pre_flash_script / post_flash_script a Hooks subclass returns
MaxHookOps == 1

----------------------------------------------------------------------------
(* Strings *)

StartsWith(s, prefix) ==
    /\ Len(s) >= Len(prefix)
    /\ SubSeq(s, 1, Len(prefix)) = prefix

ExtTokens == {".gz", ".img", ".apk", ".jar", ".zip", ".so", ".bin", ".p"}

\* os.path.splitext(name)[1]
Splitext(name) ==
    IF /\ Len(name) >= 2
       /\ name[Len(name)] \in ExtTokens
       /\ name[Len(name) - 1] # "/"
    THEN name[Len(name)]
    ELSE ""

\* fnmatch(f_name, pattern) for the patterns of gapps_files: literal names,
\* or a directory followed by "*"
fnmatch(f_name, pattern) ==
    IF Len(pattern) > 0 /\ pattern[Len(pattern)] = "*"
    THEN StartsWith(f_name, SubSeq(pattern, 1, Len(pattern) - 1))
    ELSE f_name = pattern

RECURSIVE SeqToSet(_)
SeqToSet(s) == IF s = <<>> THEN {} ELSE {Head(s)} \cup SeqToSet(Tail(s))

RECURSIVE Sha1Fold(_, _)
Sha1Fold(data, acc) ==
    IF data = <<>> THEN acc
    ELSE Sha1Fold(Tail(data), acc * 4 + Head(data) + 1)

\* sha1(data).hexdigest(): injective on the contents of the model
Sha1(data) == 1000 + Sha1Fold(data, 0)

----------------------------------------------------------------------------
(* The files of the archives *)

PathA == <<"system", "/", "bin", "/", "a">>
PathX == <<"system", "/", "app", "/", "X", ".apk">>
PathB == <<"boot", ".img">>
PathM == <<"modem", ".bin">>

UpdaterScriptName ==
    <<"META-INF", "/", "com", "/", "google", "/", "android", "/", "updater-script">>
UpdateBinaryName ==
    <<"META-INF", "/", "com", "/", "google", "/", "android", "/", "update-binary">>

\* order of the entries inside an archive
ArchiveOrder == <<PathX, PathA, PathB, PathM>>

OldData == <<0>>
NewData == <<1, 0>>
BinaryData == <<2>>

\* a regular file; st_mode is external_attr >> 16, here 0100644
ZipEntry(name, data) ==
    [filename |-> name, data |-> data, st_mode |-> 32768 + 420]

\* an archive whose entries are the paths of dom, with contents content[p]
RECURSIVE EntriesOf(_, _, _)
EntriesOf(order, dom, content) ==
    IF order = <<>> THEN <<>>
    ELSE (IF Head(order) \in dom
          THEN <<ZipEntry(Head(order), content[Head(order)])>>
          ELSE <<>>) \o EntriesOf(Tail(order), dom, content)

Archive(dom, content) ==
    [exists |-> TRUE,
     entries |-> EntriesOf(ArchiveOrder, dom, content)
                 \o <<ZipEntry(UpdateBinaryName, BinaryData)>>]

\* the bytes of a symbolic link are the path it points to
LinkData == <<3>>

\* a symbolic link; st_mode is 0120777
LinkEntry(name) ==
    [filename |-> name, data |-> LinkData, st_mode |-> 40960 + 511]

\* the archive zip, with the entries named in links stored as symbolic links
WithLinks(zip, links) ==
    [zip EXCEPT !.entries =
        [i \in 1..Len(zip.entries) |->
            IF zip.entries[i].filename \in links
            THEN LinkEntry(zip.entries[i].filename)
            ELSE zip.entries[i]]]

\* an archive that is no flashable zip: it has no update-binary
BareArchive ==
    [exists |-> TRUE, entries |-> <<ZipEntry(PathA, NewData)>>]

MissingFile == [exists |-> FALSE, entries |-> <<>>]

HasEntry(zip, name) == \E i \in 1..Len(zip.entries) : zip.entries[i].filename = name

\* ZipFile.read(name)
ZipRead(zip, name) ==
    zip.entries[CHOOSE i \in 1..Len(zip.entries) : zip.entries[i].filename = name].data

----------------------------------------------------------------------------
(* DeltaJen static helpers *)

\* Faulty variant: it takes no entry for a symbolic link.
_is_symlink_never(info) == FALSE

\* (info.external_attr >> 16) & 0o770000 == 0o120000
_is_symlink(info) == ((info.st_mode \div 4096) % 64) * 4096 = 10 * 4096

file_object(name, data) ==
    [name |-> name, data |-> data, size |-> Len(data), sha1 |-> Sha1(data)]

\* Faulty variant: it writes the entry without its bytes.
add_to_zip_empty(file_obj) == [name |-> file_obj.name, data |-> <<>>]

\* the entry add_to_zip writes for a file object
add_to_zip(file_obj) == [name |-> file_obj.name, data |-> file_obj.data]

get_file_from_ptr(zip, f_name) == file_object(f_name, ZipRead(zip, f_name))

----------------------------------------------------------------------------
(* DeltaJen.__init__ *)

\* Faulty variant: it opens the base archive before it looks at the input path.
InitResultOpenEarly(bz, iz) ==
    IF ~bz.exists THEN [exc |-> "FileNotFound", opened |-> {}]
    ELSE IF ~iz.exists THEN [exc |-> "FileNotFound", opened |-> {"base_zip"}]
    ELSE [exc |-> "none", opened |-> {"base_zip", "input_zip", "output_zip"}]

\* what __init__ raises, and the archives it has opened by then
InitResult(bz, iz) ==
    IF ~bz.exists THEN [exc |-> "FileNotFound", opened |-> {}]
    ELSE IF ~iz.exists THEN [exc |-> "FileNotFound", opened |-> {}]
    ELSE [exc |-> "none", opened |-> {"base_zip", "input_zip", "output_zip"}]

Construct ==
    /\ pc = "init"
    /\ LET r == InitResult(base_zip_file, input_zip_file) IN
        /\ exc' = r.exc
        /\ opened' = r.opened
        /\ pc' = IF r.exc = "none" THEN "load_data" ELSE "raised"
    /\ UNCHANGED <<base_zip_file, input_zip_file, policy, gapps_files, bs_diff,
                   base_ptr, input_ptr, to_diff, counter, output_zip,
                   output_closed, script, warnings>>
    /\ UNCHANGED diffVars

----------------------------------------------------------------------------
(* DeltaJen.load_files, load_data *)

\* the list extra of load_files
ExtraList ==
    policy.extra_files \o policy.to_copy
        \o (IF policy.boot_info # <<>> THEN <<PathB>> ELSE <<>>)

RECURSIVE LoadLoop(_, _, _)
LoadLoop(infolist, extra, out) ==
    IF infolist = <<>> THEN out
    ELSE LET info == Head(infolist)
             keep == /\ \/ StartsWith(info.filename, <<"system", "/">>)
                        \/ info.filename \in SeqToSet(extra)
                     /\ ~_is_symlink(info)
         IN LoadLoop(Tail(infolist), extra,
                     IF keep /\ info.filename \notin SeqToSet(out)
                     THEN Append(out, info.filename) ELSE out)

\* the keys of the dictionary load_files returns, in insertion order
load_files(zip) == LoadLoop(zip.entries, ExtraList, <<>>)

LoadData ==
    /\ pc = "load_data"
    /\ base_ptr' = load_files(base_zip_file)
    /\ input_ptr' = load_files(input_zip_file)
    /\ pc' = "find_diffs"
    /\ UNCHANGED <<base_zip_file, input_zip_file, policy, gapps_files, bs_diff,
                   exc, opened, to_diff, counter, output_zip, output_closed,
                   script, warnings>>
    /\ UNCHANGED diffVars

----------------------------------------------------------------------------
(* DeltaJen.find_diffs, find_removes *)

\* Faulty variant: it tests the digests before it looks at the copy list.
FindDiffsStepDigestFirst(f_name, acc) ==
    LET n_file == get_file_from_ptr(input_zip_file, f_name) IN
    IF f_name \notin SeqToSet(base_ptr)
    THEN [acc EXCEPT !.written = Append(@, add_to_zip(n_file))]
    ELSE IF n_file.sha1 # get_file_from_ptr(base_zip_file, f_name).sha1
    THEN [acc EXCEPT !.to_diff = Append(@, f_name)]
    ELSE IF f_name \in SeqToSet(policy.to_copy)
    THEN [acc EXCEPT !.written = Append(@, add_to_zip(n_file))]
    ELSE acc

\* Faulty variant: it tests the digests with "if" where the code has "elif".
FindDiffsStepNoElif(f_name, acc) ==
    LET n_file == get_file_from_ptr(input_zip_file, f_name)
        copied == IF f_name \notin SeqToSet(base_ptr)
                     \/ f_name \in SeqToSet(policy.to_copy)
                  THEN [acc EXCEPT !.written = Append(@, add_to_zip(n_file))]
                  ELSE acc
    IN IF /\ f_name \in SeqToSet(base_ptr)
          /\ n_file.sha1 # get_file_from_ptr(base_zip_file, f_name).sha1
       THEN [copied EXCEPT !.to_diff = Append(@, f_name)]
       ELSE copied

\* Faulty variant: it never looks at the copy list.
FindDiffsStepNoOverride(f_name, acc) ==
    LET n_file == get_file_from_ptr(input_zip_file, f_name) IN
    IF f_name \notin SeqToSet(base_ptr)
    THEN [acc EXCEPT !.written = Append(@, add_to_zip(n_file))]
    ELSE IF n_file.sha1 # get_file_from_ptr(base_zip_file, f_name).sha1
    THEN [acc EXCEPT !.to_diff = Append(@, f_name)]
    ELSE acc

\* one iteration of the loop of find_diffs
FindDiffsStep(f_name, acc) ==
    LET n_file == get_file_from_ptr(input_zip_file, f_name) IN
    IF f_name \notin SeqToSet(base_ptr) \/ f_name \in SeqToSet(policy.to_copy)
    THEN [acc EXCEPT !.written = Append(@, add_to_zip(n_file))]
    ELSE IF n_file.sha1 # get_file_from_ptr(base_zip_file, f_name).sha1
    THEN [acc EXCEPT !.to_diff = Append(@, f_name)]
    ELSE acc

RECURSIVE FindDiffsLoop(_, _)
FindDiffsLoop(keys, acc) ==
    IF keys = <<>> THEN acc
    ELSE FindDiffsLoop(Tail(keys), FindDiffsStep(Head(keys), acc))

find_diffs == FindDiffsLoop(input_ptr, [written |-> <<>>, to_diff |-> <<>>])

\* Faulty variant: it lists every base file.
FindRemovesStepAll(f_name, to_remove) == Append(to_remove, f_name)

\* one iteration of the loop of find_removes
FindRemovesStep(f_name, to_remove) ==
    IF f_name \notin SeqToSet(input_ptr) THEN Append(to_remove, f_name)
    ELSE to_remove

RECURSIVE FindRemovesLoop(_, _)
FindRemovesLoop(keys, to_remove) ==
    IF keys = <<>> THEN to_remove
    ELSE FindRemovesLoop(Tail(keys), FindRemovesStep(Head(keys), to_remove))

find_removes == FindRemovesLoop(base_ptr, <<>>)

FindDiffs ==
    /\ pc = "find_diffs"
    /\ LET r == find_diffs IN
        /\ to_diff' = r.to_diff
        /\ output_zip' = output_zip \o r.written
    /\ counter' = 1
    /\ pc' = "create_patches"
    /\ UNCHANGED <<base_zip_file, input_zip_file, policy, gapps_files, bs_diff,
                   exc, opened, base_ptr, input_ptr, output_closed, script,
                   warnings>>
    /\ UNCHANGED diffVars

----------------------------------------------------------------------------
(* DeltaJen.compute_diff, as create_patches sees it *)

AllowList == {".gz", ".img", ".apk", ".jar", ".zip"}

\* Faulty variant: it forgets the archive bundles.
diff_programs_no_zip(ext) ==
    IF ext \in {".gz", ".img"} THEN <<"imgdiff">>
    ELSE IF ext \in {".apk", ".jar"} THEN <<"imgdiff", "-z">>
    ELSE <<"bsdiff">>

\* diff_programs.get(ext, ['bsdiff'])
diff_programs(ext) ==
    IF ext \in {".gz", ".img"} THEN <<"imgdiff">>
    ELSE IF ext \in {".apk", ".jar", ".zip"} THEN <<"imgdiff", "-z">>
    ELSE <<"bsdiff">>

\* cmd == ['bsdiff'] and bs_diff
InProcess(cmd, has_bs_diff) == cmd = <<"bsdiff">> /\ has_bs_diff

\* the bytes of a patch from base bytes b to new bytes n made by differ cmd
PatchBytes(cmd, b, n) == <<Len(cmd) + 2>> \o b \o <<3>> \o n

\* what running the external tool can do: exit 0, exit non-zero, fail to start
ToolRuns == {"ok", "fail", "oserror"}

\* the result of compute_diff(b_file, n_file) when the external tool, if one
\* is run, behaves as run
compute_diff(b_file, n_file, has_bs_diff, run) ==
    LET cmd == diff_programs(Splitext(b_file.name)) IN
    IF InProcess(cmd, has_bs_diff)
    THEN [kind |-> "data", data |-> PatchBytes(cmd, b_file.data, n_file.data),
          exc |-> "none"]
    ELSE IF run = "oserror"
    THEN [kind |-> "raise", data |-> <<>>, exc |-> "OSError"]
    ELSE IF run = "fail"
    THEN [kind |-> "None", data |-> <<>>, exc |-> "none"]
    ELSE [kind |-> "data", data |-> PatchBytes(cmd, b_file.data, n_file.data),
          exc |-> "none"]

----------------------------------------------------------------------------
(* DeltaJen.compute_diff, statement by statement, with its temporary files *)

NoResult == [kind |-> "", data |-> <<>>, exc |-> "none", used |-> ""]

\* a file made by mkstemp: its descriptor is open and its path exists
TempFile(role) == [role |-> role, fd_open |-> TRUE, exists |-> TRUE]

\* lines 804-816: choose cmd; the in-process differ returns at once
DSelect ==
    /\ d_pc = "start"
    /\ LET cmd == diff_programs(Splitext(d_in.name)) IN
       /\ d_cmd' = cmd
       /\ IF InProcess(cmd, d_in.bs_diff)
          THEN /\ d_out' = [kind |-> "data",
                            data |-> PatchBytes(cmd, d_in.b_data, d_in.n_data),
                            exc |-> "none", used |-> "bs_diff"]
               /\ d_pc' = "returned"
          ELSE /\ d_out' = d_out
               /\ d_pc' = "write_base"
    /\ UNCHANGED <<d_in, d_tmp>>
    /\ UNCHANGED genVars

\* write_to_temp(file_obj): mkstemp, open, write, close.  fault says where an
\* OSError or IOError strikes: in mkstemp (no file yet) or in open/write (the
\* file of mkstemp is there and stays)
WriteToTemp(role, next_pc) ==
    \E fault \in {"none", "mkstemp", "write"} :
        /\ d_tmp' = IF fault = "mkstemp" THEN d_tmp
                    ELSE Append(d_tmp, TempFile(role))
        /\ IF fault = "none"
           THEN /\ d_pc' = next_pc
                /\ d_out' = d_out
           ELSE /\ d_pc' = "raised"
                /\ d_out' = [d_out EXCEPT !.kind = "raise", !.exc = "IOError"]

\* line 818
DWriteBase ==
    /\ d_pc = "write_base"
    /\ WriteToTemp("b", "write_new")
    /\ UNCHANGED <<d_in, d_cmd>>
    /\ UNCHANGED genVars

\* line 819
DWriteNew ==
    /\ d_pc = "write_new"
    /\ WriteToTemp("n", "mkstemp")
    /\ UNCHANGED <<d_in, d_cmd>>
    /\ UNCHANGED genVars

\* line 820
DMkstemp ==
    /\ d_pc = "mkstemp"
    /\ \E fault \in BOOLEAN :
        IF fault
        THEN /\ d_pc' = "raised"
             /\ d_out' = [d_out EXCEPT !.kind = "raise", !.exc = "OSError"]
             /\ d_tmp' = d_tmp
        ELSE /\ d_pc' = "try"
             /\ d_out' = d_out
             /\ d_tmp' = Append(d_tmp, TempFile("p"))
    /\ UNCHANGED <<d_in, d_cmd>>
    /\ UNCHANGED genVars

\* lines 827-833: output after the tool has ended with returncode
compute_diff_result(returncode) ==
    IF returncode # 0
    THEN [kind |-> "None", data |-> <<>>, exc |-> "none", used |-> d_cmd[1]]
    ELSE [kind |-> "data", data |-> PatchBytes(d_cmd, d_in.b_data, d_in.n_data),
          exc |-> "none", used |-> d_cmd[1]]

\* lines 822-833: the body of the try statement
DRun ==
    /\ d_pc = "try"
    /\ d_cmd' = d_cmd \o <<"b_path", "n_path", "p_path">>
    /\ IF d_cmd[1] \notin d_in.installed
       THEN \* Popen raises: the executable is not there
            d_out' = [kind |-> "raise", data |-> <<>>, exc |-> "OSError",
                      used |-> d_cmd[1]]
       ELSE \E returncode \in {0, 1} :
            d_out' = compute_diff_result(returncode)
    /\ d_pc' = "finally"
    /\ UNCHANGED <<d_in, d_tmp>>
    /\ UNCHANGED genVars

\* lines 834-838 and cleanup_tmp: close every descriptor, remove every path,
\* then return output or let the exception go on
DCleanup ==
    /\ d_pc = "finally"
    /\ d_tmp' = [i \in 1..Len(d_tmp) |->
                    [d_tmp[i] EXCEPT !.fd_open = FALSE, !.exists = FALSE]]
    /\ d_pc' = IF d_out.kind = "raise" THEN "raised" ELSE "returned"
    /\ UNCHANGED <<d_in, d_cmd, d_out>>
    /\ UNCHANGED genVars

----------------------------------------------------------------------------
(* DeltaJen.create_patches: one iteration of its loop *)

\* Faulty variant: it leaves the suffix off the patch name.
PatchPathNoSuffix(f_name) == <<"patch", "/">> \o f_name

PatchPath(f_name) == <<"patch", "/">> \o f_name \o <<".p">>

CreatePatch ==
    /\ pc = "create_patches"
    /\ counter <= Len(to_diff)
    /\ LET f_name == to_diff[counter]
           n_file == get_file_from_ptr(input_zip_file, f_name)
           b_file == get_file_from_ptr(base_zip_file, f_name)
           in_proc == InProcess(diff_programs(Splitext(b_file.name)), bs_diff)
       IN \E run \in ToolRuns :
            /\ in_proc => run = "ok"
            /\ LET p_data == compute_diff(b_file, n_file, bs_diff, run) IN
               \/ /\ p_data.kind = "raise"
                  /\ pc' = "raised"
                  /\ exc' = p_data.exc
                  /\ UNCHANGED <<output_zip, counter, warnings>>
               \/ /\ p_data.kind = "None"
                  \* file_object(patch_path, None, ...) evaluates len(None)
                  /\ pc' = "raised"
                  /\ exc' = "TypeError"
                  /\ warnings' = warnings \cup {f_name}
                  /\ UNCHANGED <<output_zip, counter>>
               \/ /\ p_data.kind = "data"
                  /\ output_zip' = Append(output_zip,
                        add_to_zip(file_object(PatchPath(f_name), p_data.data)))
                  /\ counter' = counter + 1
                  /\ UNCHANGED <<pc, exc, warnings>>
    /\ UNCHANGED <<base_zip_file, input_zip_file, policy, gapps_files, bs_diff,
                   opened, base_ptr, input_ptr, to_diff, output_closed, script>>
    /\ UNCHANGED diffVars

----------------------------------------------------------------------------
(* Edify *)

Stmt(op, args, orelse) == [op |-> op, args |-> args, orelse |-> orelse]

ui_print(message) == Stmt("ui_print", <<message>>, "")

\* apply_patch_check("f_name", "sha"...) || abort(...) or || ui_print(...)
apply_patch_check(f_name, sha, abort) ==
    Stmt("apply_patch_check", <<f_name>> \o sha,
         IF abort THEN "abort" ELSE "ui_print")

RECURSIVE PairArgs(_)
PairArgs(patch_pairs) ==
    IF Len(patch_pairs) < 2 THEN <<>>
    ELSE <<patch_pairs[1], [package_extract_file |-> patch_pairs[2]]>>
         \o PairArgs(SubSeq(patch_pairs, 3, Len(patch_pairs)))

\* Faulty variant: it fills the format string in the order of the Python parameters.
apply_patch_size_first(b_name, n_name, n_size, n_sha, patch_pairs, abort) ==
    Stmt("apply_patch",
         <<b_name, n_name, n_size, n_sha>> \o PairArgs(patch_pairs),
         IF abort THEN "" ELSE "ui_print")

\* 'apply_patch("%s", "%s", %s, %d' % (b_name, n_name, n_sha, n_size), then
\* ', %s, package_extract_file("%s")' for each pair
apply_patch(b_name, n_name, n_size, n_sha, patch_pairs, abort) ==
    Stmt("apply_patch",
         <<b_name, n_name, n_sha, n_size>> \o PairArgs(patch_pairs),
         IF abort THEN "" ELSE "ui_print")

mount(fs_type, part_type, device, mnt_pnt) ==
    Stmt("mount", <<fs_type, part_type, device, mnt_pnt>>, "")

unmount(mnt_pnt) == Stmt("unmount", <<mnt_pnt>>, "")

delete(file_list) == Stmt("delete", file_list, "")

edify_assert_device(device_list) == Stmt("assert", device_list, "abort")

run_program(commands) == Stmt("run_program", commands, "")

symlink(base_file, link_files) == Stmt("symlink", <<base_file>> \o link_files, "")

----------------------------------------------------------------------------
(* Hooks: the per-file overrides of the default class *)

patch_gapps(f_name) ==
    \E i \in 1..Len(gapps_files) : fnmatch(f_name, gapps_files[i])

custom_verifying(f_name) ==
    IF patch_gapps(f_name)
    THEN LET n_file == get_file_from_ptr(input_zip_file, f_name)
             b_file == get_file_from_ptr(base_zip_file, f_name)
         IN <<apply_patch_check(<<"/">> \o f_name,
                                <<b_file.sha1, n_file.sha1>>, FALSE)>>
    ELSE <<>>

custom_applying(f_name) ==
    IF patch_gapps(f_name)
    THEN LET n_file == get_file_from_ptr(input_zip_file, f_name)
             b_file == get_file_from_ptr(base_zip_file, f_name)
         IN <<apply_patch(<<"/">> \o b_file.name, <<"-">>, n_file.size,
                          n_file.sha1,
                          <<b_file.sha1,
                            <<"patch", "/">> \o b_file.name \o <<".p">>>>,
                          FALSE)>>
    ELSE <<>>

----------------------------------------------------------------------------
(* DeltaJen: the phases of the script *)

part_types(kind) ==
    CASE kind = "bml" -> "BML"
      [] kind \in {"ext2", "ext3", "ext4", "emmc", "f2fs", "vfat"} -> "EMMC"
      [] kind \in {"mtd", "yaffs2"} -> "MTD"

assert_device ==
    IF policy.assert_device # <<>>
    THEN <<edify_assert_device(policy.assert_device)>>
    ELSE <<>>

mount_system ==
    IF policy.system_info = <<>> THEN <<>>
    ELSE LET system_part == policy.system_info[2]
             system_dev == policy.system_info[1]
         IN <<ui_print("Mounting system..."),
              mount(system_part, part_types(system_part), system_dev, "/system")>>

BootName(b_file, n_file) ==
    <<part_types(policy.boot_info[2]), ":", policy.boot_info[1], ":",
      b_file.size, ":", b_file.sha1, ":", n_file.size, ":", n_file.sha1>>

\* Faulty variant: it emits no check for the boot image.
assert_boot_none == <<>>

assert_boot ==
    IF policy.boot_info = <<>> THEN <<>>
    ELSE LET b_file == get_file_from_ptr(base_zip_file, PathB)
             n_file == get_file_from_ptr(input_zip_file, PathB)
         IN <<apply_patch_check(BootName(b_file, n_file), <<>>, TRUE)>>

\* Faulty variant: it names a patch that create_patches does not write.
flash_boot_wrong_ref ==
    IF policy.boot_info = <<>> THEN <<>>
    ELSE LET b_file == get_file_from_ptr(base_zip_file, PathB)
             n_file == get_file_from_ptr(input_zip_file, PathB)
         IN <<apply_patch(BootName(b_file, n_file), <<"-">>, n_file.size,
                          n_file.sha1,
                          <<b_file.sha1, <<"patch", "/", "boot", ".p">>>>,
                          TRUE)>>

flash_boot ==
    IF policy.boot_info = <<>> THEN <<>>
    ELSE LET b_file == get_file_from_ptr(base_zip_file, PathB)
             n_file == get_file_from_ptr(input_zip_file, PathB)
         IN <<apply_patch(BootName(b_file, n_file), <<"-">>, n_file.size,
                          n_file.sha1,
                          <<b_file.sha1, <<"patch", "/", "boot", ".img", ".p">>>>,
                          TRUE)>>

\* Faulty variant: it verifies a file outside system/ as a system file.
VerifyFileNoSkip(f_name) ==
    IF custom_verifying(f_name) # <<>> THEN custom_verifying(f_name)
    ELSE IF f_name = PathB THEN assert_boot
    ELSE LET n_file == get_file_from_ptr(input_zip_file, f_name)
             b_file == get_file_from_ptr(base_zip_file, f_name)
         IN <<apply_patch_check(<<"/">> \o f_name,
                                <<b_file.sha1, n_file.sha1>>, TRUE)>>

\* the commands one file adds to the script of verify_system
VerifyFile(f_name) ==
    IF custom_verifying(f_name) # <<>> THEN custom_verifying(f_name)
    ELSE IF f_name = PathB THEN assert_boot
    ELSE IF ~StartsWith(f_name, <<"system", "/">>) THEN <<>>
    ELSE LET n_file == get_file_from_ptr(input_zip_file, f_name)
             b_file == get_file_from_ptr(base_zip_file, f_name)
         IN <<apply_patch_check(<<"/">> \o f_name,
                                <<b_file.sha1, n_file.sha1>>, TRUE)>>

RECURSIVE VerifyLoop(_)
VerifyLoop(files) ==
    IF files = <<>> THEN <<>>
    ELSE VerifyFile(Head(files)) \o VerifyLoop(Tail(files))

verify_system(files) ==
    <<ui_print("Verifying current system...")>> \o VerifyLoop(files)

\* the commands one file adds to the script of patch_system
PatchFile(f_name) ==
    IF custom_applying(f_name) # <<>> THEN custom_applying(f_name)
    ELSE IF f_name = PathB THEN flash_boot
    ELSE IF ~StartsWith(f_name, <<"system", "/">>) THEN <<>>
    ELSE LET n_file == get_file_from_ptr(input_zip_file, f_name)
             b_file == get_file_from_ptr(base_zip_file, f_name)
         IN <<apply_patch(<<"/">> \o b_file.name, <<"-">>, n_file.size,
                          n_file.sha1,
                          <<b_file.sha1,
                            <<"patch", "/">> \o b_file.name \o <<".p">>>>,
                          TRUE)>>

RECURSIVE PatchLoop(_)
PatchLoop(files) ==
    IF files = <<>> THEN <<>>
    ELSE PatchFile(Head(files)) \o PatchLoop(Tail(files))

patch_system(files) ==
    <<ui_print("Patching system files...")>> \o PatchLoop(files)

\* Faulty variant: it emits the delete phase when there is nothing to remove.
delete_files_always ==
    <<ui_print("Removing files..."), delete(find_removes)>>

delete_files ==
    LET to_remove == find_removes IN
    IF to_remove = <<>> THEN <<>>
    ELSE <<ui_print("Removing files..."), delete(to_remove)>>

RECURSIVE SymlinkLoop(_)
SymlinkLoop(to_symlink) ==
    IF to_symlink = <<>> THEN <<>>
    ELSE <<symlink(Head(to_symlink)[1], Head(to_symlink)[2])>>
         \o SymlinkLoop(Tail(to_symlink))

symlink_files == SymlinkLoop(policy.symlinks)

unmount_system ==
    IF policy.system_info = <<>> THEN <<>>
    ELSE <<ui_print("Unmounting system..."), unmount("/system")>>

\* Faulty variant: it runs the pre-flash hook before the verification.
GenerateScriptPreHookFirst ==
    assert_device \o mount_system \o policy.pre_flash_script
        \o verify_system(to_diff) \o patch_system(to_diff) \o delete_files
        \o symlink_files \o policy.post_flash_script \o unmount_system

\* Faulty variant: it deletes before it patches.
GenerateScriptDeleteFirst ==
    assert_device \o mount_system \o verify_system(to_diff)
        \o policy.pre_flash_script \o delete_files \o patch_system(to_diff)
        \o symlink_files \o policy.post_flash_script \o unmount_system

\* the list script of generate, when add_updater is called
GenerateScript ==
    assert_device \o mount_system \o verify_system(to_diff)
        \o policy.pre_flash_script \o patch_system(to_diff) \o delete_files
        \o symlink_files \o policy.post_flash_script \o unmount_system

Synthesize ==
    /\ pc = "create_patches"
    /\ counter > Len(to_diff)
    /\ script' = GenerateScript
    /\ pc' = "add_updater"
    /\ UNCHANGED <<base_zip_file, input_zip_file, policy, gapps_files, bs_diff,
                   exc, opened, base_ptr, input_ptr, to_diff, counter,
                   output_zip, output_closed, warnings>>
    /\ UNCHANGED diffVars

----------------------------------------------------------------------------
(* DeltaJen.add_updater and the end of generate *)

\* '\n'.join(script)
RECURSIVE Join(_)
Join(lines) ==
    IF lines = <<>> THEN <<>>
    ELSE IF Len(lines) = 1 THEN <<Head(lines)>>
    ELSE <<Head(lines), "\n">> \o Join(Tail(lines))

AddUpdater ==
    /\ pc = "add_updater"
    /\ IF HasEntry(input_zip_file, UpdateBinaryName)
       THEN /\ output_zip' = output_zip \o
                  <<[name |-> UpdaterScriptName, data |-> Join(script)],
                    add_to_zip(get_file_from_ptr(input_zip_file, UpdateBinaryName))>>
            /\ pc' = "close"
            /\ exc' = exc
       ELSE \* input_zip.getinfo raises after the script was written
            /\ output_zip' = Append(output_zip,
                  [name |-> UpdaterScriptName, data |-> Join(script)])
            /\ pc' = "raised"
            /\ exc' = "KeyError"
    /\ UNCHANGED <<base_zip_file, input_zip_file, policy, gapps_files, bs_diff,
                   opened, base_ptr, input_ptr, to_diff, counter,
                   output_closed, script, warnings>>
    /\ UNCHANGED diffVars

Close ==
    /\ pc = "close"
    /\ output_closed' = TRUE
    /\ pc' = "done"
    /\ UNCHANGED <<base_zip_file, input_zip_file, policy, gapps_files, bs_diff,
                   exc, opened, base_ptr, input_ptr, to_diff, counter,
                   output_zip, script, warnings>>
    /\ UNCHANGED diffVars

----------------------------------------------------------------------------
(* Inputs *)

ArchivesOver(paths, contents) ==
    { Archive(dom, content) : dom \in SUBSET paths, content \in [paths -> contents] }

HookScripts == { [i \in 1..n |-> run_program(<<"/tmp/hook.sh">>)] : n \in 0..MaxHookOps }

DefaultPolicy ==
    [to_copy |-> <<>>, extra_files |-> <<>>, boot_info |-> <<>>,
     system_info |-> <<>>, assert_device |-> <<>>, pre_flash_script |-> <<>>,
     post_flash_script |-> <<>>, symlinks |-> <<>>]

BootInfos == {<<>>, <<"/dev/block/boot", "emmc">>}
SystemInfos == {<<>>, <<"/dev/block/system", "ext4">>}
ToCopies == {<<>>, <<PathX>>}
GappsLists == {<<>>, << <<"system", "/", "app", "/", "*">> >>}
DeviceLists == {<<>>, <<"mako">>}
SymlinkLists == {<<>>, << <<"/system/bin/toolbox", <<"/system/bin/ls">>>> >>}

InitRun ==
    /\ exc = "none"
    /\ opened = {}
    /\ base_ptr = <<>>
    /\ input_ptr = <<>>
    /\ to_diff = <<>>
    /\ counter = 0
    /\ output_zip = <<>>
    /\ output_closed = FALSE
    /\ script = <<>>
    /\ warnings = {}

InitNoDiff ==
    /\ d_pc = "idle"
    /\ d_in = [name |-> <<>>, b_data |-> <<>>, n_data |-> <<>>,
                bs_diff |-> FALSE, installed |-> {}]
    /\ d_cmd = <<>>
    /\ d_tmp = <<>>
    /\ d_out = NoResult

\* Archives over three files, with the Hooks of the default class
Init ==
    /\ base_zip_file \in
          ArchivesOver({PathX, PathA, PathB}, {OldData, NewData}) \cup {MissingFile}
    /\ input_zip_file \in
          ArchivesOver({PathX, PathA, PathB}, {OldData, NewData})
              \cup {MissingFile, BareArchive}
    /\ \E tc \in ToCopies, bi \in BootInfos, si \in SystemInfos :
          policy = [DefaultPolicy EXCEPT !.to_copy = tc, !.boot_info = bi,
                                         !.system_info = si]
    /\ gapps_files \in GappsLists
    /\ bs_diff \in BOOLEAN
    /\ pc = "init"
    /\ InitRun
    /\ InitNoDiff

Next ==
    \/ Construct
    \/ LoadData
    \/ FindDiffs
    \/ CreatePatch
    \/ Synthesize
    \/ AddUpdater
    \/ Close

Spec == Init /\ [][Next]_vars

----------------------------------------------------------------------------
(* compute_diff alone: one call, for every extension and host *)

DiffNames ==
    { <<"system", "/", "f">> \o e :
        e \in {<<".gz">>, <<".img">>, <<".apk">>, <<".jar">>, <<".zip">>,
               <<".so">>, <<>>} }

InitIdleRun ==
    /\ base_zip_file = MissingFile
    /\ input_zip_file = MissingFile
    /\ policy = DefaultPolicy
    /\ gapps_files = <<>>
    /\ bs_diff = FALSE
    /\ pc = "idle"
    /\ InitRun

InitDiff ==
    /\ InitIdleRun
    /\ d_pc = "start"
    /\ d_in \in [name : DiffNames, b_data : {OldData}, n_data : {NewData},
                 bs_diff : BOOLEAN, installed : SUBSET {"imgdiff", "bsdiff"}]
    /\ d_cmd = <<>>
    /\ d_tmp = <<>>
    /\ d_out = NoResult

NextDiff ==
    \/ DSelect
    \/ DWriteBase
    \/ DWriteNew
    \/ DMkstemp
    \/ DRun
    \/ DCleanup

SpecDiff == InitDiff /\ [][NextDiff]_vars

----------------------------------------------------------------------------
(* Script synthesis alone: archives over two files, every Hooks answer *)

InitScript ==
    /\ base_zip_file \in ArchivesOver({PathX, PathA}, {OldData, NewData})
    /\ input_zip_file \in ArchivesOver({PathX, PathA}, {OldData, NewData})
    /\ policy \in [to_copy : ToCopies, extra_files : {<<>>}, boot_info : {<<>>},
                   system_info : SystemInfos, assert_device : DeviceLists,
                   pre_flash_script : HookScripts,
                   post_flash_script : HookScripts, symlinks : SymlinkLists]
    /\ gapps_files \in GappsLists
    /\ bs_diff = TRUE
    /\ pc = "init"
    /\ InitRun
    /\ InitNoDiff

SpecScript == InitScript /\ [][Next]_vars

----------------------------------------------------------------------------
(* Catalogs: symbolic links, a file outside system/, extra and copy lists *)

ExtraArchives ==
    { WithLinks(Archive(dom, [p \in {PathA, PathB, PathM} |->
                                IF p = PathB THEN OldData ELSE content[p]]),
                links) :
        dom \in SUBSET {PathA, PathB, PathM},
        content \in [{PathA, PathM} -> {OldData, NewData}],
        links \in SUBSET {PathA, PathM} }

ExtraLists == {<<>>, <<PathM>>}

InitExtra ==
    /\ base_zip_file \in ExtraArchives
    /\ input_zip_file \in ExtraArchives
    /\ \E ef \in ExtraLists, tc \in ExtraLists, bi \in BootInfos :
          policy = [DefaultPolicy EXCEPT !.extra_files = ef, !.to_copy = tc,
                                         !.boot_info = bi]
    /\ gapps_files \in ExtraLists
    /\ bs_diff = TRUE
    /\ pc = "init"
    /\ InitRun
    /\ InitNoDiff

SpecExtra == InitExtra /\ [][Next]_vars

----------------------------------------------------------------------------
(* Vocabulary of the properties *)

BasePaths == SeqToSet(base_ptr)
NewPaths == SeqToSet(input_ptr)

NoDuplicates(s) == \A i, j \in 1..Len(s) : s[i] = s[j] => i = j

\* find_diffs has just returned: output_zip holds what it wrote, nothing else
AfterFindDiffs == pc = "create_patches" /\ counter = 1

\* the catalogs are loaded and nothing was raised
Loaded == pc \in {"find_diffs", "create_patches", "add_updater", "close", "done"}

ScriptBuilt == pc \in {"add_updater", "close", "done"}

WrittenNames == { output_zip[i].name : i \in 1..Len(output_zip) }

toPatch == SeqToSet(to_diff)

BaseSha(p) == get_file_from_ptr(base_zip_file, p).sha1
NewSha(p) == get_file_from_ptr(input_zip_file, p).sha1

Changed(p) == p \in BasePaths /\ p \in NewPaths /\ BaseSha(p) # NewSha(p)

CopyOverride == SeqToSet(policy.to_copy)

\* statement i of the script verifies or patches the file p
RefersTo(i, p) ==
    /\ script[i].op \in {"apply_patch_check", "apply_patch"}
    /\ script[i].args[1] = <<"/">> \o p

OpsAt(op) == { i \in 1..Len(script) : script[i].op = op }

----------------------------------------------------------------------------
(* C1 *)

\* C1: find_diffs partitions the paths of the new catalog.  Every new path
\* is written to the output (toCopy), or listed in to_diff (toPatch), or
\* neither (unchanged: it is in the base catalog with the same digest), never
\* two of these, each at most once, and nothing else is written or listed.
C1_Partition ==
    AfterFindDiffs =>
        /\ WrittenNames \cap toPatch = {}
        /\ WrittenNames \cup toPatch \subseteq NewPaths
        /\ NoDuplicates(output_zip)
        /\ NoDuplicates(to_diff)
        /\ \A p \in NewPaths :
            /\ p \in WrittenNames <=> (p \notin BasePaths \/ p \in CopyOverride)
            /\ p \in toPatch <=> (Changed(p) /\ p \notin CopyOverride)
            /\ p \notin WrittenNames \cup toPatch =>
                  (p \in BasePaths /\ BaseSha(p) = NewSha(p))
        /\ \A i \in 1..Len(output_zip) :
              output_zip[i].data = ZipRead(input_zip_file, output_zip[i].name)

\* all three classes are inhabited at once
C1_Witness ==
    /\ AfterFindDiffs
    /\ WrittenNames # {}
    /\ toPatch # {}
    /\ NewPaths \ (WrittenNames \cup toPatch) # {}

----------------------------------------------------------------------------
(* C2 *)

\* C2: find_removes returns exactly the paths of the base catalog that are
\* not in the new catalog, each once; the delete command of the script lists
\* exactly these.
C2_Removes ==
    /\ Loaded =>
        /\ SeqToSet(find_removes) = BasePaths \ NewPaths
        /\ NoDuplicates(find_removes)
    /\ ScriptBuilt =>
        \A i \in OpsAt("delete") :
            SeqToSet(script[i].args) = BasePaths \ NewPaths

\* some file is removed while another base file stays
C2_Witness ==
    /\ ScriptBuilt
    /\ OpsAt("delete") # {}
    /\ BasePaths \cap NewPaths # {}
    /\ NewPaths \ BasePaths # {}

----------------------------------------------------------------------------
(* C3 *)

\* C3: a copy-override path that is in both catalogs with differing digests
\* is copied, not patched: it is not in to_diff, the output archive holds the
\* new archive's bytes under its path and no patch/<path>.p, and no verify or
\* patch command of the script names it.
C3_CopyOverride ==
    \A p \in CopyOverride :
        (Loaded /\ pc # "find_diffs" /\ Changed(p)) =>
            /\ p \notin toPatch
            /\ \E i \in 1..Len(output_zip) :
                  output_zip[i] = [name |-> p, data |-> ZipRead(input_zip_file, p)]
            /\ PatchPath(p) \notin WrittenNames
            /\ \A i \in 1..Len(script) : ~RefersTo(i, p)

\* a finished run with a changed copy-override file beside a patched file
C3_Witness ==
    /\ pc = "done"
    /\ \E p \in CopyOverride : Changed(p)
    /\ toPatch # {}
    /\ gapps_files # <<>>

----------------------------------------------------------------------------
(* C4 *)

\* C4 as stated: classifying an archive against itself gives no patch, no
\* removal, and toCopy equal to the copy-override set.
C4_Original ==
    (AfterFindDiffs /\ base_zip_file = input_zip_file) =>
        /\ toPatch = {}
        /\ find_removes = <<>>
        /\ WrittenNames = CopyOverride

\* C4 amended: classifying an archive against itself gives no patch, no
\* removal, and toCopy equal to the copy-override paths that the catalog
\* holds.
C4_Idempotent ==
    (AfterFindDiffs /\ base_zip_file = input_zip_file) =>
        /\ toPatch = {}
        /\ find_removes = <<>>
        /\ WrittenNames = CopyOverride \cap NewPaths

\* an archive classified against itself, with a copy-override file in it
C4_Witness ==
    /\ AfterFindDiffs
    /\ base_zip_file = input_zip_file
    /\ CopyOverride \cap NewPaths # {}
    /\ NewPaths \ CopyOverride # {}

----------------------------------------------------------------------------
(* C5 *)

\* C5: in the script of generate the mount command, if there is one, comes
\* before the first verify command; the delete command, if there is one,
\* comes after the last apply_patch command; and the unmount command, if
\* there is one, is the last command of the script.
C5_PhaseOrder ==
    ScriptBuilt =>
        /\ \A m \in OpsAt("mount"), v \in OpsAt("apply_patch_check") : m < v
        /\ \A d \in OpsAt("delete"), a \in OpsAt("apply_patch") : a < d
        /\ \A u \in OpsAt("unmount") : u = Len(script)

\* a script with all five kinds of command, and both hook scripts
C5_Witness ==
    /\ ScriptBuilt
    /\ OpsAt("mount") # {}
    /\ OpsAt("apply_patch_check") # {}
    /\ OpsAt("apply_patch") # {}
    /\ OpsAt("delete") # {}
    /\ OpsAt("unmount") # {}
    /\ policy.pre_flash_script # <<>>
    /\ policy.post_flash_script # <<>>

----------------------------------------------------------------------------
(* C6 *)

\* C6: a diff that fails for one file does not end the run: after the
\* WARNING of compute_diff nothing is raised, and generate goes on to write
\* the script and close the output archive.
C6_DiffFailureNotFatal == warnings # {} => (pc # "raised" /\ exc = "none")

----------------------------------------------------------------------------
(* C7 *)

\* C7: when the base path or the input path is no file, __init__ raises
\* FileNotFound, and by then it has opened neither input archive nor created
\* the output archive, and nothing was written.
C7_FileNotFound ==
    (pc # "init" /\ (~base_zip_file.exists \/ ~input_zip_file.exists)) =>
        /\ pc = "raised"
        /\ exc = "FileNotFound"
        /\ opened = {}
        /\ output_zip = <<>>
        /\ ~output_closed

\* the base archive is there, the input archive is not, and __init__ has run
C7_Witness ==
    /\ pc = "raised"
    /\ base_zip_file.exists
    /\ ~input_zip_file.exists

----------------------------------------------------------------------------
(* C8 *)

\* C8: when compute_diff returns or raises, every temporary file it made is
\* closed and deleted.
C8_TempFilesCleaned ==
    d_pc \in {"returned", "raised"} =>
        \A i \in 1..Len(d_tmp) : ~d_tmp[i].fd_open /\ ~d_tmp[i].exists

----------------------------------------------------------------------------
(* C9 *)

\* the differ a finished or failed call of compute_diff has used is the
\* generic one: bsdiff4 in the process, or the bsdiff program
UsedGeneric == d_out.used \in {"bs_diff", "bsdiff"}

\* C9 as stated: an extension of the allow-list uses imgdiff when imgdiff is
\* available; every other extension, and every extension when imgdiff is not
\* available, uses the generic differ.
C9_Original ==
    d_out.used # "" =>
        IF Splitext(d_in.name) \in AllowList /\ "imgdiff" \in d_in.installed
        THEN d_out.used = "imgdiff"
        ELSE UsedGeneric

\* C9 amended: the extension alone decides.  An extension of the allow-list
\* (.gz, .img, .apk, .jar, .zip) uses imgdiff, whether or not imgdiff is
\* available; every other extension uses the generic differ.
C9_StrategyByExtension ==
    d_out.used # "" =>
        IF Splitext(d_in.name) \in AllowList
        THEN d_out.used = "imgdiff"
        ELSE UsedGeneric

\* a .zip file was diffed by imgdiff, which is installed and has ended
C9_Witness ==
    /\ d_pc = "returned"
    /\ Splitext(d_in.name) = ".zip"
    /\ d_out.used = "imgdiff"
    /\ d_out.kind = "data"

----------------------------------------------------------------------------
(* C10 *)

\* the file of to_diff that apply_patch command i was made for
PatchedBy(i, f) ==
    /\ f \in toPatch
    /\ script[i].args[6] =
          [package_extract_file |-> <<"patch", "/">> \o f \o <<".p">>]

NewSize(p) == get_file_from_ptr(input_zip_file, p).size

\* C10 as stated: after the two names an apply_patch command lists the new
\* size, then the new digest, then the (base digest, patch) pairs.
C10_Original ==
    ScriptBuilt =>
        \A i \in OpsAt("apply_patch") : \E f \in toPatch :
            /\ PatchedBy(i, f)
            /\ script[i].args[2] = <<"-">>
            /\ script[i].args[3] = NewSize(f)
            /\ script[i].args[4] = NewSha(f)
            /\ script[i].args[5] = BaseSha(f)

\* C10 amended: an apply_patch command lists the base name, the new name or
\* "-", the new digest, the new size, then the (base digest, patch) pairs;
\* for a system file of to_diff these are "/" + path, "-", the digest and the
\* size of the new file, the digest of the base file and patch/<path>.p.
C10_ParameterOrder ==
    ScriptBuilt =>
        /\ \A i \in OpsAt("apply_patch") : \E f \in toPatch :
            /\ Len(script[i].args) = 6
            /\ PatchedBy(i, f)
            /\ script[i].args[2] = <<"-">>
            /\ script[i].args[3] = NewSha(f)
            /\ script[i].args[4] = NewSize(f)
            /\ script[i].args[5] = BaseSha(f)
        /\ \A f \in toPatch :
            (StartsWith(f, <<"system", "/">>) /\ ~patch_gapps(f)) =>
                \E i \in OpsAt("apply_patch") :
                    /\ script[i].orelse = ""
                    /\ script[i].args =
                          <<(<<"/">> \o f), <<"-">>, NewSha(f), NewSize(f),
                            BaseSha(f),
                            [package_extract_file |->
                                <<"patch", "/">> \o f \o <<".p">>]>>

\* a script that patches a system file, a gapps file and the boot image
C10_Witness ==
    /\ ScriptBuilt
    /\ Cardinality(OpsAt("apply_patch")) = 3
    /\ \E i \in OpsAt("apply_patch") : script[i].orelse = "ui_print"

----------------------------------------------------------------------------
(* C11 *)

\* the commands op of the script whose first argument is "/" + p
OpsFor(op, p) == { i \in OpsAt(op) : script[i].args[1] = <<"/">> \o p }

\* the entries of the output archive named name
EntriesNamed(name) == { i \in 1..Len(output_zip) : output_zip[i].name = name }

\* C11: for every file of to_diff under system/ that no gapps pattern
\* matches, the script holds exactly one apply_patch_check and exactly one
\* apply_patch for "/" + path, with the digests (and the size) of the base
\* and new catalog entries, and the output archive holds exactly one entry
\* patch/<path>.p.
C11_SystemFilePatched ==
    ScriptBuilt =>
        \A f \in toPatch :
            (StartsWith(f, <<"system", "/">>) /\ ~patch_gapps(f)) =>
                /\ Cardinality(OpsFor("apply_patch_check", f)) = 1
                /\ Cardinality(OpsFor("apply_patch", f)) = 1
                /\ \A i \in OpsFor("apply_patch_check", f) :
                      script[i].args = <<(<<"/">> \o f), BaseSha(f), NewSha(f)>>
                /\ \A i \in OpsFor("apply_patch", f) :
                      /\ script[i].args[3] = NewSha(f)
                      /\ script[i].args[4] = NewSize(f)
                      /\ script[i].args[5] = BaseSha(f)
                      /\ script[i].args[6] =
                            [package_extract_file |->
                                <<"patch", "/">> \o f \o <<".p">>]
                /\ Cardinality(EntriesNamed(<<"patch", "/">> \o f \o <<".p">>)) = 1

\* two system files were patched, neither by the gapps override
C11_Witness ==
    /\ pc = "done"
    /\ gapps_files = <<>>
    /\ {PathA, PathX} \subseteq toPatch

----------------------------------------------------------------------------
(* C12 *)

\* the paths find_diffs has to copy, and those it has to list
ExpectedCopy == { p \in NewPaths : p \notin BasePaths \/ p \in CopyOverride }
ExpectedPatch == { p \in NewPaths : Changed(p) /\ p \notin CopyOverride }

\* C12: after generate has ended without an exception the output archive
\* holds exactly the updater-script with the joined script, the
\* update-binary with the bytes of the new archive, patch/<path>.p for every
\* file to patch and every file to copy under its own path with its new
\* bytes, each once; a file that is unchanged has no entry.
C12_OutputEntries ==
    pc = "done" =>
        /\ NoDuplicates(output_zip)
        /\ \A i, j \in 1..Len(output_zip) :
              output_zip[i].name = output_zip[j].name => i = j
        /\ WrittenNames =
              {UpdaterScriptName, UpdateBinaryName}
                  \cup { <<"patch", "/">> \o p \o <<".p">> : p \in ExpectedPatch }
                  \cup ExpectedCopy
        /\ \A i \in EntriesNamed(UpdaterScriptName) :
              output_zip[i].data = Join(script)
        /\ \A i \in EntriesNamed(UpdateBinaryName) :
              output_zip[i].data = ZipRead(input_zip_file, UpdateBinaryName)
        /\ \A p \in ExpectedCopy : \A i \in EntriesNamed(p) :
              output_zip[i].data = ZipRead(input_zip_file, p)

\* a finished run with a copied file, a patched file and an unchanged file
C12_Witness ==
    /\ pc = "done"
    /\ ExpectedCopy # {}
    /\ ExpectedPatch # {}
    /\ NewPaths \ (ExpectedCopy \cup ExpectedPatch) # {}

----------------------------------------------------------------------------
(* C13 *)

\* S_ISLNK of the entry: the file type bits of st_mode are 012
IsLink(info) == info.st_mode \div 4096 = 10

\* the names of the entries of zip that are no links and that named admits
Selected(zip, named) ==
    { zip.entries[i].filename : i \in
        { j \in 1..Len(zip.entries) :
            /\ ~IsLink(zip.entries[j])
            /\ \/ StartsWith(zip.entries[j].filename, <<"system", "/">>)
               \/ zip.entries[j].filename \in named } }

BootListed == IF policy.boot_info # <<>> THEN {PathB} ELSE {}

\* The claim as written: a catalog holds exactly the entries that are no
\* symbolic links and are under system/, or an extra file, or boot.img when
\* there is boot info.
C13_Original ==
    Loaded =>
        /\ BasePaths = Selected(base_zip_file,
                                SeqToSet(policy.extra_files) \cup BootListed)
        /\ NewPaths = Selected(input_zip_file,
                               SeqToSet(policy.extra_files) \cup BootListed)

\* C13: a catalog holds exactly the entries of the archive that are no
\* symbolic links and whose path is under system/, or is an extra file, or
\* is a file of the copy list (to_copy), or is boot.img when there is boot
\* info; no symbolic link and no other path is in a catalog.
C13_Catalog ==
    Loaded =>
        /\ BasePaths = Selected(base_zip_file,
              SeqToSet(policy.extra_files) \cup CopyOverride \cup BootListed)
        /\ NewPaths = Selected(input_zip_file,
              SeqToSet(policy.extra_files) \cup CopyOverride \cup BootListed)

\* the new archive holds a link under system/, a boot.img that is not asked
\* for and a file of the copy list that is loaded; the base archive holds
\* that file as a link
C13_Witness ==
    /\ Loaded
    /\ \E i \in 1..Len(input_zip_file.entries) :
          /\ input_zip_file.entries[i].filename = PathA
          /\ IsLink(input_zip_file.entries[i])
    /\ HasEntry(input_zip_file, PathB)
    /\ policy.boot_info = <<>>
    /\ policy.extra_files = <<>>
    /\ policy.to_copy = <<PathM>>
    /\ PathM \in NewPaths
    /\ HasEntry(base_zip_file, PathM)
    /\ PathM \notin BasePaths

----------------------------------------------------------------------------
(* C15 *)

\* the places of the script that name the file p: as the target of a
\* verification or of a patch, or as the patch to apply
NamedIn(p) ==
    { i \in 1..Len(script) :
        /\ script[i].op \in {"apply_patch_check", "apply_patch"}
        /\ \/ script[i].args[1] = <<"/">> \o p
           \/ /\ script[i].op = "apply_patch"
              /\ script[i].args[6] =
                    [package_extract_file |-> <<"patch", "/">> \o p \o <<".p">>] }

\* C15: a file of to_diff that no gapps pattern matches, that is not
\* boot.img and is not under system/ has no apply_patch_check and no
\* apply_patch in the script, and still has its patch in the output archive.
C15_SkippedButPatched ==
    ScriptBuilt =>
        \A f \in toPatch :
            (~patch_gapps(f) /\ f # PathB /\ ~StartsWith(f, <<"system", "/">>)) =>
                /\ NamedIn(f) = {}
                /\ Cardinality(EntriesNamed(<<"patch", "/">> \o f \o <<".p">>)) = 1

\* the extra file changed and is in to_diff beside a system file
C15_Witness ==
    /\ pc = "done"
    /\ gapps_files = <<>>
    /\ PathM \in toPatch
    /\ PathA \in toPatch
    /\ NamedIn(PathA) # {}

----------------------------------------------------------------------------
(* C14 *)

\* the places of the log line with the text message
LogAt(message) ==
    { i \in 1..Len(script) :
        script[i].op = "ui_print" /\ script[i].args = <<message>> }

\* the statements of hook stand in the script from place first on
HookAt(hook, first) ==
    \A k \in 1..Len(hook) :
        /\ first + k - 1 \in 1..Len(script)
        /\ script[first + k - 1].op = hook[k].op
        /\ script[first + k - 1].args = hook[k].args
        /\ script[first + k - 1].orelse = hook[k].orelse

\* the place after the last statement before the unmount phase
UnmountStart ==
    IF policy.system_info = <<>> THEN Len(script) + 1 ELSE Len(script) - 1

\* C14: the script of generate is, in this order, the device assertion, the
\* mount phase, the verify phase, the statements of pre_flash_script as the
\* hook returned them, the patch phase, the delete phase, the symlink
\* statements, the statements of post_flash_script as the hook returned them,
\* and the unmount phase; every apply_patch_check comes before every
\* apply_patch.
C14_FixedOrder ==
    ScriptBuilt =>
        \E v \in LogAt("Verifying current system..."),
           p \in LogAt("Patching system files...") :
            LET pre == policy.pre_flash_script
                post == policy.post_flash_script
            IN /\ LogAt("Verifying current system...") = {v}
               /\ LogAt("Patching system files...") = {p}
               /\ \A i \in OpsAt("assert") : i = 1
               /\ \A i \in OpsAt("mount") : i < v
               /\ \A i \in (v + 1)..(p - Len(pre) - 1) :
                     script[i].op = "apply_patch_check"
               /\ \A i \in OpsAt("apply_patch_check") :
                     v < i /\ i < p - Len(pre)
               /\ v < p - Len(pre)
               /\ HookAt(pre, p - Len(pre))
               /\ \A i \in OpsAt("apply_patch") : p < i
               /\ \A i \in OpsAt("apply_patch"), j \in OpsAt("delete") : i < j
               /\ \A i \in OpsAt("apply_patch") \cup OpsAt("delete"),
                     j \in OpsAt("symlink") : i < j
               /\ \A i \in (p + 1)..(UnmountStart - Len(post) - 1) :
                     script[i].op \in {"apply_patch", "ui_print", "delete", "symlink"}
               /\ p < UnmountStart - Len(post)
               /\ HookAt(post, UnmountStart - Len(post))
               /\ \A i \in OpsAt("unmount") : i = Len(script)

\* a finished run whose script has both hooks, a verification, a patch, a
\* delete command and a symlink command
C14_Witness ==
    /\ pc = "done"
    /\ policy.pre_flash_script # <<>>
    /\ policy.post_flash_script # <<>>
    /\ policy.symlinks # <<>>
    /\ policy.system_info # <<>>
    /\ OpsAt("apply_patch_check") # {}
    /\ OpsAt("apply_patch") # {}
    /\ OpsAt("delete") # {}
    /\ OpsAt("symlink") # {}

----------------------------------------------------------------------------
(* C16 *)

\* the paths of the base catalog that the new catalog does not hold
toRemove == BasePaths \ NewPaths

\* C16: when there are files to remove the script holds exactly one log line
\* "Removing files...", directly followed by the one delete command of the
\* script, whose arguments are the paths to remove, each once; when there
\* are none the script holds neither the log line nor a delete command.
C16_DeletePhase ==
    ScriptBuilt =>
        IF toRemove = {}
        THEN LogAt("Removing files...") = {} /\ OpsAt("delete") = {}
        ELSE /\ Cardinality(LogAt("Removing files...")) = 1
             /\ Cardinality(OpsAt("delete")) = 1
             /\ \A l \in LogAt("Removing files...") : OpsAt("delete") = {l + 1}
             /\ \A d \in OpsAt("delete") :
                   /\ NoDuplicates(script[d].args)
                   /\ SeqToSet(script[d].args) = toRemove

\* a finished run that removes two files
C16_Witness ==
    /\ pc = "done"
    /\ Cardinality(toRemove) = 2
    /\ \E d \in OpsAt("delete") : Len(script[d].args) = 2

----------------------------------------------------------------------------
(* C17 *)

\* the first argument of the commands that verify and patch the file p:
\* the partition of the boot image, "/" + p for every other file
TargetOf(p) ==
    IF p = PathB /\ ~patch_gapps(p) /\ policy.boot_info # <<>>
    THEN BootName(get_file_from_ptr(base_zip_file, PathB),
                  get_file_from_ptr(input_zip_file, PathB))
    ELSE <<"/">> \o p

VerifiedAt(p) ==
    { i \in OpsAt("apply_patch_check") : script[i].args[1] = TargetOf(p) }

PatchedAt(p) ==
    { i \in OpsAt("apply_patch") : script[i].args[1] = TargetOf(p) }

\* C17: with the hooks of the default class, the script holds an
\* apply_patch_check for a file of to_diff exactly when it holds an
\* apply_patch for it, and the check comes first: this is so for a file a
\* gapps pattern matches, for boot.img and for a file under system/.
C17_VerifyIffPatch ==
    ScriptBuilt =>
        \A f \in toPatch :
            /\ VerifiedAt(f) # {} <=> PatchedAt(f) # {}
            /\ \A j \in PatchedAt(f) : \E i \in VerifiedAt(f) : i < j

\* boot.img, a file a gapps pattern matches and a plain system file are all
\* in to_diff, each verified and patched
C17_Witness ==
    /\ pc = "done"
    /\ toPatch = {PathX, PathA, PathB}
    /\ patch_gapps(PathX)
    /\ ~patch_gapps(PathA)
    /\ \A f \in toPatch : VerifiedAt(f) # {} /\ PatchedAt(f) # {}

----------------------------------------------------------------------------
(* C18 *)

\* the patches the apply_patch command at place i extracts from the archive
PatchRefs(i) ==
    { script[i].args[k].package_extract_file :
        k \in { n \in 6..Len(script[i].args) : n % 2 = 0 } }

\* C18: with the hooks of the default class, every patch that an
\* apply_patch command of the script extracts is the patch of a file of
\* to_diff, and create_patches has written it to the output archive before
\* the script was made.
C18_PatchRefsWritten ==
    ScriptBuilt =>
        \A i \in OpsAt("apply_patch") :
            /\ PatchRefs(i) # {}
            /\ \A ref \in PatchRefs(i) :
                  /\ \E f \in toPatch : ref = <<"patch", "/">> \o f \o <<".p">>
                  /\ \E n \in 1..Len(output_zip) :
                        /\ output_zip[n].name = ref
                        /\ \A m \in EntriesNamed(UpdaterScriptName) : n < m

\* the script is written, and it extracts the patch of the boot image, of a
\* file a gapps pattern matches and of a plain system file
C18_Witness ==
    /\ pc = "close"
    /\ \E i, j, k \in OpsAt("apply_patch") :
          /\ PatchRefs(i) = {<<"patch", "/", "boot", ".img", ".p">>}
          /\ PatchRefs(j) = {<<"patch", "/">> \o PathX \o <<".p">>}
          /\ script[j].orelse = "ui_print"
          /\ PatchRefs(k) = {<<"patch", "/">> \o PathA \o <<".p">>}

====
